---- MODULE Spec2Model ----
(***************************************************************************)
(* A model of calculator_python_adv.py: the restricted evaluator safe_eval *)
(* (ast.parse followed by the recursive _eval over the parse tree, the     *)
(* registries ALLOWED_NAMES and ALLOWED_OPERATORS) and the calculator's    *)
(* input handlers (on_button_click, key_press, toggle_sign, apply_unary,   *)
(* wrap_function, evaluate_expression) acting on current_input and on the  *)
(* display variable result_var.                                            *)
(*                                                                         *)
(* Text is a sequence of characters, each character a string.  Numbers are *)
(* Python ints and floats; a float is kept as the decimal n / 10^e that    *)
(* its repr prints.  An evaluation whose arithmetic leaves the numbers the *)
(* model holds exactly (more than MaxNum, an inexact quotient or root, a   *)
(* transcendental value, a negative zero) ends OutOfModel, and the         *)
(* handlers are not explored on such inputs.                               *)
(***************************************************************************)
EXTENDS Integers, Sequences, FiniteSets, TLC

\* Bounds of the model.
MaxLen == 3        \* input grows only while it is shorter than this
MaxNum == 30000    \* largest int, and largest float mantissa, held exactly
MaxExp == 6        \* most decimal places of a float
NCalls == 2        \* concurrent safe_eval calls

VARIABLES
  ALLOWED_NAMES,      \* the module global: name -> math constant or function
  ALLOWED_OPERATORS,  \* the module global: ast operator type -> function
  current_input,      \* AdvancedCalculator.current_input
  result_var,         \* the text of the display, AdvancedCalculator.result_var
  advanced_visible,   \* AdvancedCalculator.advanced_visible
  last_call,          \* the handler that ran last, with what it computed
  call,               \* one safe_eval call: its argument, parse tree, outcome
  threads             \* concurrent safe_eval calls, each with its own frames

vars == <<ALLOWED_NAMES, ALLOWED_OPERATORS, current_input, result_var,
          advanced_visible, last_call, call, threads>>

Abs(x) == IF x < 0 THEN -x ELSE x

Max(a, b) == IF a < b THEN b ELSE a

Pow10(k) == IF k <= 0 THEN 1 ELSE 10 ^ k

\* a * b stays within the integers the model computes with
Fits(a, b) == a = 0 \/ b = 0 \/ Abs(a) <= (MaxNum * MaxNum) \div Abs(b)

(***************************************************************************)
(* Values and outcomes.                                                    *)
(***************************************************************************)
NoId == << >>

IntV(n) == [k |-> "int", n |-> n, e |-> 0, id |-> NoId]

FloatV(n, e) == [k |-> "float", n |-> n, e |-> e, id |-> NoId]

\* a float the model does not hold exactly (math.pi, math.e)
RealV(id) == [k |-> "real", n |-> 0, e |-> 0, id |-> id]

ComplexV == [k |-> "complex", n |-> 0, e |-> 0, id |-> NoId]

\* a function object of the registry
FuncV(id) == [k |-> "func", n |-> 0, e |-> 0, id |-> id]

\* a str, bytes, bool, None or Ellipsis constant
OtherV(id) == [k |-> "other", n |-> 0, e |-> 0, id |-> id]

NoVal == [k |-> "none", n |-> 0, e |-> 0, id |-> NoId]

Ok(v) == [st |-> "ok", val |-> v, exc |-> "", msg |-> ""]

Raise(exc, msg) == [st |-> "raise", val |-> NoVal, exc |-> exc, msg |-> msg]

OutOfModel == [st |-> "oom", val |-> NoVal, exc |-> "", msg |-> ""]

IsNum(v) == v.k \in {"int", "float"}

RECURSIVE Norm(_, _)
Norm(n, e) ==
  IF e > 0 /\ n % 10 = 0 THEN Norm(n \div 10, e - 1) ELSE [n |-> n, e |-> e]

MkInt(n) == IF Abs(n) > MaxNum THEN OutOfModel ELSE Ok(IntV(n))

MkFloat(n, e) ==
  LET m == Norm(n, e)
  IN  IF Abs(m.n) > MaxNum \/ m.e > MaxExp THEN OutOfModel
      ELSE Ok(FloatV(m.n, m.e))

(***************************************************************************)
(* The operator module's functions, the values of ALLOWED_OPERATORS.       *)
(***************************************************************************)
BadOperands(a, b) == a.k = "func" \/ b.k = "func"

\* Both operands are whole numbers: a double holds them exactly, and the
\* correctly rounded result of +, -, *, /, % prints as the exact decimal.
Whole(a, b) == a.e = 0 /\ b.e = 0

operator_add(a, b) ==
  IF BadOperands(a, b) THEN Raise("TypeError", "unsupported operand type(s)")
  ELSE IF ~(IsNum(a) /\ IsNum(b)) \/ ~Whole(a, b) THEN OutOfModel
  ELSE IF a.k = "int" /\ b.k = "int" THEN MkInt(a.n + b.n)
  ELSE MkFloat(a.n + b.n, 0)

operator_sub(a, b) ==
  IF BadOperands(a, b) THEN Raise("TypeError", "unsupported operand type(s)")
  ELSE IF ~(IsNum(a) /\ IsNum(b)) \/ ~Whole(a, b) THEN OutOfModel
  ELSE IF a.k = "int" /\ b.k = "int" THEN MkInt(a.n - b.n)
  ELSE MkFloat(a.n - b.n, 0)

operator_mul(a, b) ==
  IF BadOperands(a, b) THEN Raise("TypeError", "unsupported operand type(s)")
  ELSE IF ~(IsNum(a) /\ IsNum(b)) \/ ~Whole(a, b) THEN OutOfModel
  ELSE IF a.k = "int" /\ b.k = "int" THEN MkInt(a.n * b.n)
  ELSE IF a.n * b.n = 0 /\ (a.n < 0 \/ b.n < 0) THEN OutOfModel  \* -0.0
  ELSE MkFloat(a.n * b.n, 0)

\* num / den as a decimal with at most MaxExp places, both positive
RECURSIVE DivDec(_, _, _)
DivDec(num, den, k) ==
  IF num % den = 0 THEN [ok |-> TRUE, n |-> num \div den, e |-> k]
  ELSE IF k >= MaxExp \/ ~Fits(num, 10) THEN [ok |-> FALSE, n |-> 0, e |-> 0]
  ELSE DivDec(num * 10, den, k + 1)

QuotientOf(na, nb, q) ==
  IF na = 0 /\ nb < 0 THEN OutOfModel                               \* -0.0
  ELSE IF ~q.ok THEN OutOfModel
  ELSE MkFloat(IF (na < 0) = (nb < 0) THEN q.n ELSE -q.n, q.e)

\* the float na / nb of two whole numbers, nb nonzero
Quotient(na, nb) == QuotientOf(na, nb, DivDec(Abs(na), Abs(nb), 0))

operator_truediv(a, b) ==
  IF BadOperands(a, b) THEN Raise("TypeError", "unsupported operand type(s)")
  ELSE IF ~(IsNum(a) /\ IsNum(b)) THEN OutOfModel
  ELSE IF b.n = 0 THEN Raise("ZeroDivisionError", "division by zero")
  ELSE IF ~Whole(a, b) THEN OutOfModel
  ELSE Quotient(a.n, b.n)

\* Python's %: the remainder has the sign of the divisor
FloorMod(x, y) == IF y > 0 THEN x % y ELSE -((-x) % (-y))

operator_mod(a, b) ==
  IF BadOperands(a, b) THEN Raise("TypeError", "unsupported operand type(s)")
  ELSE IF ~(IsNum(a) /\ IsNum(b)) THEN OutOfModel
  ELSE IF b.n = 0 THEN Raise("ZeroDivisionError", "modulo by zero")
  ELSE IF ~Whole(a, b) THEN OutOfModel
  ELSE IF a.k = "int" /\ b.k = "int" THEN MkInt(FloorMod(a.n, b.n))
  ELSE IF FloorMod(a.n, b.n) = 0 /\ (b.n < 0 \/ a.n < 0) THEN OutOfModel \* -0.0
  ELSE MkFloat(FloorMod(a.n, b.n), 0)

\* acc * b^x for an int x >= 0, as long as it stays within MaxNum
RECURSIVE PowerFrom(_, _, _)
PowerFrom(b, x, acc) ==
  IF x = 0 THEN [ok |-> TRUE, n |-> acc]
  ELSE IF Abs(acc) > MaxNum \/ ~Fits(acc, b) THEN [ok |-> FALSE, n |-> 0]
  ELSE PowerFrom(b, x - 1, acc * b)

\* b^x for an int x >= 0
IntPower(b, x) ==
  IF x = 0 THEN [ok |-> TRUE, n |-> 1]
  ELSE IF b \in {0, 1} THEN [ok |-> TRUE, n |-> b]
  ELSE IF b = -1 THEN [ok |-> TRUE, n |-> IF x % 2 = 0 THEN 1 ELSE -1]
  ELSE PowerFrom(b, x, 1)

\* the float square root of the whole number n, when it is whole too: the
\* root is looked for between lo and hi
RECURSIVE RootFrom(_, _, _)
RootFrom(n, lo, hi) ==
  LET mid == (lo + hi) \div 2
  IN  IF lo > hi THEN OutOfModel
      ELSE IF mid * mid = n THEN MkFloat(mid, 0)
      ELSE IF mid * mid > n THEN RootFrom(n, lo, mid - 1)
      ELSE RootFrom(n, mid + 1, hi)

\* the float square root of a number v >= 0
ExactRoot(v) ==
  IF v.e # 0 \/ v.n > MaxNum THEN OutOfModel ELSE RootFrom(v.n, 0, v.n)

\* a ** b for a whole exponent b and the power p of the base's digits
WholePower(a, b, p) ==
  IF b.n >= 0 THEN
    IF ~p.ok THEN OutOfModel
    ELSE IF a.k = "int" /\ b.k = "int" THEN MkInt(p.n)
    ELSE MkFloat(p.n, 0)
  ELSE IF a.n = 0
    THEN Raise("ZeroDivisionError", "0.0 cannot be raised to a negative power")
  ELSE IF ~p.ok THEN OutOfModel
  ELSE Quotient(1, p.n)

operator_pow(a, b) ==
  IF BadOperands(a, b) THEN Raise("TypeError", "unsupported operand type(s)")
  ELSE IF ~(IsNum(a) /\ IsNum(b)) THEN OutOfModel
  ELSE IF b.e = 0 THEN
    IF a.e # 0 /\ b.n # 0 THEN OutOfModel
    ELSE WholePower(a, b, IntPower(a.n, Abs(b.n)))
  ELSE
    \* a fractional exponent: a negative base gives a complex number
    IF a.n < 0 THEN Ok(ComplexV)
    ELSE IF a.n = 0 THEN
      IF b.n > 0 THEN Ok(FloatV(0, 0))
      ELSE Raise("ZeroDivisionError", "0.0 cannot be raised to a negative power")
    ELSE IF b.n = 5 /\ b.e = 1 THEN ExactRoot(a)
    ELSE OutOfModel

operator_neg(a) ==
  IF a.k = "func" THEN Raise("TypeError", "bad operand type for unary -")
  ELSE IF ~IsNum(a) THEN OutOfModel
  ELSE IF a.k = "int" THEN MkInt(-a.n)
  ELSE IF a.n = 0 THEN OutOfModel                                  \* -0.0
  ELSE MkFloat(-a.n, a.e)

operator_pos(a) ==
  IF a.k = "func" THEN Raise("TypeError", "bad operand type for unary +")
  ELSE IF ~IsNum(a) THEN OutOfModel
  ELSE Ok(a)

(***************************************************************************)
(* Identifiers.  A name is the sequence of its characters.                 *)
(***************************************************************************)
\* the identifiers the model names, each the sequence of its characters
K ==
  [sin |-> <<"s", "i", "n">>,
   cos |-> <<"c", "o", "s">>,
   tan |-> <<"t", "a", "n">>,
   log |-> <<"l", "o", "g">>,
   ln |-> <<"l", "n">>,
   sinh |-> <<"s", "i", "n", "h">>,
   cosh |-> <<"c", "o", "s", "h">>,
   tanh |-> <<"t", "a", "n", "h">>,
   asinh |-> <<"a", "s", "i", "n", "h">>,
   acosh |-> <<"a", "c", "o", "s", "h">>,
   atanh |-> <<"a", "t", "a", "n", "h">>,
   sqrt |-> <<"s", "q", "r", "t">>,
   abs |-> <<"a", "b", "s">>,
   pow |-> <<"p", "o", "w">>,
   pi |-> <<"p", "i">>,
   e |-> <<"e">>,
   Ellipsis |-> <<"E", "l", "l", "i", "p", "s", "i", "s">>]

\* characters outside ASCII, written by name: the button labels for the
\* multiplication sign, the division sign, erase-to-the-left, plus-minus,
\* square root, x squared, x cubed and pi; carriage return, backspace and
\* escape; FULLWIDTH LATIN SMALL LETTER P and MATHEMATICAL BOLD SMALL I
Label ==
  [times |-> "U+00D7", divide |-> "U+00F7", backspace |-> "U+232B",
   sign |-> "U+00B1", sqrt |-> "U+221A", square |-> "x^2", cube |-> "x^3",
   pi |-> "U+03C0", cr |-> "U+000D", bs |-> "U+0008", esc |-> "U+001B",
   fw_p |-> "U+FF50", mb_i |-> "U+1D422"]

\* module math, as far as the model holds it: dir(math) has many more names
MathModule ==
  [id \in {K.sin, K.cos, K.tan, K.log, K.sinh, K.cosh, K.tanh, K.asinh,
           K.acosh, K.atanh, K.sqrt, K.pow, K.pi, K.e} |->
     IF id \in {K.pi, K.e} THEN RealV(id) ELSE FuncV(id)]

\* what the update() call adds or overrides.  A function value is named by
\* its registry key: FuncV(K.sin) is sin_deg, FuncV(K.abs) the built-in abs
Overrides ==
  [id \in {K.abs, K.pow, K.sin, K.cos, K.tan, K.sinh, K.cosh, K.tanh,
           K.asinh, K.acosh, K.atanh} |-> FuncV(id)]

\* the registry after module load: dir(math), then the update
InitialNames ==
  [id \in DOMAIN MathModule \cup DOMAIN Overrides |->
     IF id \in DOMAIN Overrides THEN Overrides[id] ELSE MathModule[id]]

InitialOperators ==
  [Add |-> "add", Sub |-> "sub", Mult |-> "mul", Div |-> "truediv",
   Pow |-> "pow", Mod |-> "mod", USub |-> "neg", UAdd |-> "pos"]

(***************************************************************************)
(* The registered functions.                                               *)
(***************************************************************************)
EpsPlaces == 10     \* eps = 1e-10

\* a nonzero float of magnitude far below eps (the noise of sin(pi))
Tiny == RealV(<<"t", "i", "n", "y">>)

\* 0 if abs(val) < eps else val
round_small(val) ==
  IF \/ val = Tiny
     \/ /\ val.k \in {"int", "float"}
        /\ \/ val.n = 0
           \/ val.e > EpsPlaces /\ Abs(val.n) < Pow10(val.e - EpsPlaces)
    THEN IntV(0)
  ELSE val

\* the one real argument of a math function
RealArg(args) ==
  IF Len(args) # 1 THEN Raise("TypeError", "takes exactly one argument")
  ELSE IF args[1].k \in {"func", "complex"}
    THEN Raise("TypeError", "must be real number")
  ELSE IF ~IsNum(args[1]) THEN OutOfModel
  ELSE Ok(args[1])

\* x degrees is q quarter turns (mod 4), or -1
Quarter(x) == IF x.e = 0 /\ x.n % 90 = 0 THEN (x.n \div 90) % 4 ELSE -1

\* math.sin, math.cos or math.tan of math.radians(x), x being q quarter
\* turns: exact at whole quarter turns, noise where the true value is 0,
\* unmodelled elsewhere
OfRadians(f, x, q) ==
  IF q = -1 THEN OutOfModel
  ELSE IF f = "sin" THEN
    IF q = 0 THEN Ok(IF x.n = 0 THEN FloatV(0, 0) ELSE Tiny)
    ELSE IF q = 1 THEN Ok(FloatV(1, 0))
    ELSE IF q = 2 THEN Ok(Tiny)
    ELSE Ok(FloatV(-1, 0))
  ELSE IF f = "cos" THEN
    IF q = 0 THEN Ok(FloatV(1, 0))
    ELSE IF q = 2 THEN Ok(FloatV(-1, 0))
    ELSE Ok(Tiny)
  ELSE IF q = 0 THEN Ok(IF x.n = 0 THEN FloatV(0, 0) ELSE Tiny)
  ELSE IF q = 2 THEN Ok(Tiny)
  ELSE OutOfModel

Rounded(r) == IF r.st = "ok" THEN Ok(round_small(r.val)) ELSE r

sin_deg(args) ==
  LET x == RealArg(args)
  IN  IF x.st # "ok" THEN x ELSE Rounded(OfRadians("sin", x.val, Quarter(x.val)))

cos_deg(args) ==
  LET x == RealArg(args)
  IN  IF x.st # "ok" THEN x ELSE Rounded(OfRadians("cos", x.val, Quarter(x.val)))

tan_deg(args) ==
  LET x == RealArg(args)
  IN  IF x.st # "ok" THEN x ELSE Rounded(OfRadians("tan", x.val, Quarter(x.val)))

math_sqrt(args) ==
  LET x == RealArg(args)
  IN  IF x.st # "ok" THEN x
      ELSE IF x.val.n < 0 THEN Raise("ValueError", "math domain error")
      ELSE ExactRoot(x.val)

\* math.log with one argument (a second one, the base, is not modelled)
math_log(args) ==
  IF Len(args) = 2 THEN
    IF args[1].k \in {"func", "complex"} \/ args[2].k \in {"func", "complex"}
    THEN Raise("TypeError", "must be real number") ELSE OutOfModel
  ELSE LET x == RealArg(args)
       IN  IF x.st # "ok" THEN x
           ELSE IF x.val.n <= 0 THEN Raise("ValueError", "math domain error")
           ELSE IF x.val.n = Pow10(x.val.e) THEN Ok(FloatV(0, 0))
           ELSE OutOfModel

\* math.sinh, cosh, tanh, asinh, acosh, atanh: the domain errors of acosh
\* (below 1) and atanh (outside -1 .. 1), and the one value that is exact
math_hyperbolic(id, args) ==
  LET x == RealArg(args)
  IN  IF x.st # "ok" THEN x
      ELSE IF id = K.acosh THEN
        IF x.val.n < Pow10(x.val.e) THEN Raise("ValueError", "math domain error")
        ELSE IF x.val.n = Pow10(x.val.e) THEN Ok(FloatV(0, 0))
        ELSE OutOfModel
      ELSE IF id = K.atanh /\ Abs(x.val.n) >= Pow10(x.val.e)
        THEN Raise("ValueError", "math domain error")
      ELSE IF x.val.n # 0 THEN OutOfModel
      ELSE IF id = K.cosh THEN Ok(FloatV(1, 0))
      ELSE Ok(FloatV(0, 0))

builtin_abs(args) ==
  IF Len(args) # 1 THEN Raise("TypeError", "abs() takes exactly one argument")
  ELSE IF args[1].k = "func" THEN Raise("TypeError", "bad operand type for abs()")
  ELSE IF ~IsNum(args[1]) THEN OutOfModel
  ELSE Ok([args[1] EXCEPT !.n = Abs(@)])

\* pow(base, exp); the three-argument form is not modelled
builtin_pow(args) ==
  IF Len(args) < 2 \/ Len(args) > 3
    THEN Raise("TypeError", "pow() missing required argument")
  ELSE IF Len(args) = 3 THEN OutOfModel
  ELSE operator_pow(args[1], args[2])

\* calling the registry entry `entry` with the evaluated arguments
CallEntry(entry, args) ==
  IF entry.k # "func" THEN Raise("TypeError", "object is not callable")
  ELSE IF entry.id = K.sin THEN sin_deg(args)
  ELSE IF entry.id = K.cos THEN cos_deg(args)
  ELSE IF entry.id = K.tan THEN tan_deg(args)
  ELSE IF entry.id = K.log THEN math_log(args)
  ELSE IF entry.id = K.sqrt THEN math_sqrt(args)
  ELSE IF entry.id \in {K.sinh, K.cosh, K.tanh, K.asinh, K.acosh, K.atanh}
    THEN math_hyperbolic(entry.id, args)
  ELSE IF entry.id = K.abs THEN builtin_abs(args)
  ELSE IF entry.id = K.pow THEN builtin_pow(args)
  ELSE OutOfModel

\* calling the function ALLOWED_OPERATORS holds under the name f
CallOperator(f, args) ==
  IF f = "add" THEN operator_add(args[1], args[2])
  ELSE IF f = "sub" THEN operator_sub(args[1], args[2])
  ELSE IF f = "mul" THEN operator_mul(args[1], args[2])
  ELSE IF f = "truediv" THEN operator_truediv(args[1], args[2])
  ELSE IF f = "pow" THEN operator_pow(args[1], args[2])
  ELSE IF f = "mod" THEN operator_mod(args[1], args[2])
  ELSE IF f = "neg" THEN operator_neg(args[1])
  ELSE operator_pos(args[1])

(***************************************************************************)
(* Parse trees (module ast) and safe_eval's recursive _eval.               *)
(***************************************************************************)
Expression(body) == [type |-> "Expression", body |-> body]

Constant(value) == [type |-> "Constant", value |-> value]

Name(id) == [type |-> "Name", id |-> id]

BinOp(left, op, right) ==
  [type |-> "BinOp", op |-> op, left |-> left, right |-> right]

UnaryOp(op, operand) == [type |-> "UnaryOp", op |-> op, operand |-> operand]

Call(func, args, keywords) ==
  [type |-> "Call", func |-> func, args |-> args, keywords |-> keywords]

\* a starred argument of a call
Starred(value) == [type |-> "Starred", value |-> value]

\* a keyword argument of a call; arg is empty for **value
keyword(arg, value) == [arg |-> arg, value |-> value]

\* any other node: Attribute, Subscript, ListComp, NamedExpr, Tuple, ...
Node(type) == [type |-> type]

RECURSIVE _eval(_), EvalArgs(_, _)

\* [_eval(a) for a in node.args]: the values, or the first failure
EvalArgs(args, i) ==
  IF i > Len(args) THEN [st |-> "ok", vals |-> << >>, fail |-> OutOfModel]
  ELSE LET a == _eval(args[i])
       IN  IF a.st # "ok" THEN [st |-> a.st, vals |-> << >>, fail |-> a]
           ELSE LET rest == EvalArgs(args, i + 1)
                IN  IF rest.st # "ok" THEN rest
                    ELSE [rest EXCEPT !.vals = <<a.val>> \o @]

_eval(node) ==
  IF node.type = "Expression" THEN _eval(node.body)
  ELSE IF node.type = "Constant" THEN Ok(node.value)
  ELSE IF node.type = "BinOp" THEN
    IF node.op \notin DOMAIN ALLOWED_OPERATORS THEN Raise("KeyError", node.op)
    ELSE LET l == _eval(node.left)
         IN  IF l.st # "ok" THEN l
             ELSE LET r == _eval(node.right)
                  IN  IF r.st # "ok" THEN r
                      ELSE CallOperator(ALLOWED_OPERATORS[node.op], <<l.val, r.val>>)
  ELSE IF node.type = "UnaryOp" THEN
    IF node.op \notin DOMAIN ALLOWED_OPERATORS THEN Raise("KeyError", node.op)
    ELSE LET x == _eval(node.operand)
         IN  IF x.st # "ok" THEN x
             ELSE CallOperator(ALLOWED_OPERATORS[node.op], <<x.val>>)
  ELSE IF node.type = "Call" THEN
    IF node.func.type = "Name" /\ node.func.id \in DOMAIN ALLOWED_NAMES THEN
      LET args == EvalArgs(node.args, 1)
      IN  IF args.st # "ok" THEN args.fail
          ELSE CallEntry(ALLOWED_NAMES[node.func.id], args.vals)
    ELSE Raise("ValueError", "Invalid function")
  ELSE IF node.type = "Name" /\ node.id \in DOMAIN ALLOWED_NAMES
    THEN Ok(ALLOWED_NAMES[node.id])
  ELSE Raise("ValueError", "Unsupported expression")

(***************************************************************************)
(* Text: str() of a result, and the tokens ast.parse reads.                *)
(***************************************************************************)
DigitChars == <<"0", "1", "2", "3", "4", "5", "6", "7", "8", "9">>

IsDigit(c) == \E d \in 1..10 : DigitChars[d] = c

DigitVal(c) == (CHOOSE d \in 1..10 : DigitChars[d] = c) - 1

RECURSIVE Digits(_)
Digits(n) ==
  IF n < 10 THEN <<DigitChars[n + 1]>>
  ELSE Digits(n \div 10) \o <<DigitChars[(n % 10) + 1]>>

Zeros(k) == [j \in 1..k |-> "0"]

Sign(n) == IF n < 0 THEN <<"-">> ELSE << >>

\* repr of the float n / 10^e: positional, or with an exponent below 1e-04
FloatText(n, e) ==
  LET D     == Digits(Abs(n))
      L     == Len(D)
      decpt == L - e
  IN  IF n = 0 THEN <<"0", ".", "0">>
      ELSE IF decpt <= -4 THEN
        Sign(n) \o <<D[1]>>
          \o (IF L > 1 THEN <<".">> \o SubSeq(D, 2, L) ELSE << >>)
          \o <<"e", "-">>
          \o (IF 1 - decpt < 10 THEN <<"0">> ELSE << >>) \o Digits(1 - decpt)
      ELSE IF decpt <= 0 THEN Sign(n) \o <<"0", ".">> \o Zeros(-decpt) \o D
      ELSE IF decpt = L THEN Sign(n) \o D \o <<".", "0">>
      ELSE Sign(n) \o SubSeq(D, 1, decpt) \o <<".">> \o SubSeq(D, decpt + 1, L)

\* repr of a function: the three def'd in the file, and the built-in ones.
\* The address differs from run to run; one stands for all.
FunctionText(id) ==
  IF id \in {K.sin, K.cos, K.tan}
    THEN <<"<", "f", "u", "n", "c", "t", "i", "o", "n", " ">> \o id
           \o <<"_", "d", "e", "g", " ", "a", "t", " ", "0", "x", "7", "f",
                "f", "2", "e", "7", "3", "f", "5", "f", "8", "0", ">">>
  ELSE <<"<", "b", "u", "i", "l", "t", "-", "i", "n", " ", "f", "u", "n",
         "c", "t", "i", "o", "n", " ">> \o id \o <<">">>

\* str(value); the text of a complex number, of math.pi and of the other
\* constants is not modelled
py_str(v) ==
  IF v.k = "int" THEN [ok |-> TRUE, text |-> Sign(v.n) \o Digits(Abs(v.n))]
  ELSE IF v.k = "float" THEN [ok |-> TRUE, text |-> FloatText(v.n, v.e)]
  ELSE IF v.k = "func" THEN [ok |-> TRUE, text |-> FunctionText(v.id)]
  ELSE IF v.k = "other" THEN [ok |-> TRUE, text |-> v.id]
  ELSE [ok |-> FALSE, text |-> << >>]

AsciiLetters ==
  {"a", "b", "c", "d", "e", "f", "g", "h", "i", "j", "k", "l", "m", "n", "o",
   "p", "q", "r", "s", "t", "u", "v", "w", "x", "y", "z", "A", "B", "C", "D",
   "E", "F", "G", "H", "I", "J", "K", "L", "M", "N", "O", "P", "Q", "R", "S",
   "T", "U", "V", "W", "X", "Y", "Z", "_"}

\* unicodedata.normalize("NFKC", c), which the parser applies to identifiers
NFKC(c) == IF c = Label.fw_p THEN "p" ELSE IF c = Label.mb_i THEN "i" ELSE c

\* the letters of identifiers: ASCII, and the two NFKC maps onto ASCII
IsIdStart(c) == c \in AsciiLetters \cup {Label.fw_p, Label.mb_i}

IsIdChar(c) == IsIdStart(c) \/ IsDigit(c)

\* keywords that are constants, and some of those that are not expressions
ConstantKeywords ==
  {<<"T", "r", "u", "e">>, <<"F", "a", "l", "s", "e">>, <<"N", "o", "n", "e">>}

OtherKeywords == {<<"i", "n">>, <<"i", "s">>, <<"i", "f">>, <<"o", "r">>,
                  <<"a", "s">>, <<"n", "o", "t">>, <<"a", "n", "d">>}

SyntaxError == Raise("SyntaxError", "invalid syntax")

Tok(t, val, id, s) == [t |-> t, val |-> val, id |-> id, s |-> s]

\* the first index >= i of s that holds no digit (digits), or no character
\* of an identifier
ScanEnd(s, i, digits) ==
  LET Stops == {j \in i..Len(s) :
                  ~(IF digits THEN IsDigit(s[j]) ELSE IsIdChar(s[j]))}
  IN  IF Stops = {} THEN Max(i, Len(s) + 1)
      ELSE CHOOSE j \in Stops : \A k \in Stops : j <= k

\* the number the digits s[i..j-1] write, or -1 above MaxNum
RECURSIVE DigitsValue(_, _, _, _)
DigitsValue(s, i, j, acc) ==
  IF i >= j THEN acc
  ELSE IF acc * 10 + DigitVal(s[i]) > MaxNum THEN -1
  ELSE DigitsValue(s, i + 1, j, acc * 10 + DigitVal(s[i]))

CharAt(s, i) == IF i >= 1 /\ i <= Len(s) THEN s[i] ELSE ""

\* the value of a literal with the digits mant and `places` decimal places
NumberValue(mant, expo, places, floaty, imag) ==
  IF mant = -1 \/ expo = -1 THEN OutOfModel
  ELSE IF imag THEN Ok(ComplexV)
  ELSE IF ~floaty THEN MkInt(mant)
  ELSE IF mant = 0 THEN Ok(FloatV(0, 0))
  ELSE IF places >= 0 THEN MkFloat(mant, places)
  ELSE IF -places > MaxExp \/ ~Fits(mant, Pow10(-places)) THEN OutOfModel
  ELSE MkFloat(mant * Pow10(-places), 0)

LexToken(s, leading, imag, mant, val, next) ==
  [tok  |-> IF IsIdStart(CharAt(s, next)) \/ leading
              THEN Tok("bad", NoVal, NoId, "")
            ELSE IF val.st # "ok" THEN Tok("oom", NoVal, NoId, "")
            ELSE Tok("num", val.val, NoId, ""),
   next |-> next,
   \* the same digits read by float(): leading zeros allowed, no j
   real |-> IF imag THEN SyntaxError
            ELSE IF val.st # "ok" THEN val
            ELSE IF mant = 0 THEN Ok(FloatV(0, 0))
            ELSE Ok(FloatV(val.val.n, val.val.e))]

LexValue(s, i, j1, floaty, imag, mant, expo, places, end) ==
  \* a decinteger with a leading zero is all zeros
  LexToken(s, /\ ~floaty /\ ~imag
              /\ j1 - i > 1 /\ s[i] = "0"
              /\ \E x \in i..(j1 - 1) : s[x] # "0",
           imag, mant,
           NumberValue(mant, expo, places, floaty, imag),
           IF imag THEN end + 1 ELSE end)

LexDigits(s, i, j1, j2, k, end, expo) ==
  LexValue(s, i, j1, j2 > j1 \/ end > j2, CharAt(s, end) \in {"j", "J"},
           DigitsValue(SubSeq(s, i, j1 - 1) \o SubSeq(s, j1 + 1, j2 - 1),
                       1, (j1 - i) + Max(j2 - j1 - 1, 0) + 1, 0),
           expo,
           Max(j2 - j1 - 1, 0)
             - (IF CharAt(s, j2 + 1) = "-" THEN -expo ELSE expo),
           end)

\* the exponent counts only when digits follow the e
LexSuffix(s, i, j1, j2, k, end) ==
  LexDigits(s, i, j1, j2, k, end, DigitsValue(s, k, end, 0))

ExpEnd(s, j2, k) ==
  IF CharAt(s, j2) \in {"e", "E"} /\ ScanEnd(s, k, TRUE) > k
    THEN ScanEnd(s, k, TRUE) ELSE j2

LexExponent(s, i, j1, j2, k) == LexSuffix(s, i, j1, j2, k, ExpEnd(s, j2, k))

LexPoint(s, i, j1, j2) ==
  LexExponent(s, i, j1, j2,
              IF CharAt(s, j2 + 1) \in {"+", "-"} THEN j2 + 2 ELSE j2 + 1)

LexInteger(s, i, j1) ==
  LexPoint(s, i, j1, IF CharAt(s, j1) = "." THEN ScanEnd(s, j1 + 1, TRUE) ELSE j1)

\* a number literal starts at i: decinteger, pointfloat or exponentfloat,
\* with j for an imaginary one
LexNumber(s, i) == LexInteger(s, i, ScanEnd(s, i, TRUE))

NormalizeId(id) == [j \in 1..Len(id) |-> NFKC(id[j])]

NameToken(id, end) ==
  [tok  |-> IF id \in ConstantKeywords THEN Tok("num", OtherV(id), NoId, "")
            ELSE IF id \in OtherKeywords THEN Tok("bad", NoVal, NoId, "")
            ELSE Tok("name", NoVal, id, ""),
   next |-> end]

\* an identifier or keyword starts at i
LexName(s, i) ==
  NameToken(NormalizeId(SubSeq(s, i, ScanEnd(s, i, FALSE) - 1)),
            ScanEnd(s, i, FALSE))

\* the tokens of s from index i on
RECURSIVE Tokenize(_, _), Following(_, _)
Tokenize(s, i) ==
  IF i > Len(s) THEN << >>
  ELSE IF s[i] = " " THEN Tokenize(s, i + 1)
  ELSE IF IsDigit(s[i]) \/ (s[i] = "." /\ IsDigit(CharAt(s, i + 1))) THEN
    Following(s, LexNumber(s, i))
  ELSE IF IsIdStart(s[i]) THEN Following(s, LexName(s, i))
  ELSE IF s[i] = "." /\ CharAt(s, i + 1) = "." /\ CharAt(s, i + 2) = "." THEN
    <<Tok("num", OtherV(K.Ellipsis), NoId, "")>> \o Tokenize(s, i + 3)
  ELSE IF s[i] \in {"*", "/"} /\ CharAt(s, i + 1) = s[i] THEN
    <<Tok("op", NoVal, NoId, IF s[i] = "*" THEN "**" ELSE "//")>>
      \o Tokenize(s, i + 2)
  ELSE <<Tok("op", NoVal, NoId, s[i])>> \o Tokenize(s, i + 1)

\* the token n, then the tokens after it
Following(s, n) == <<n.tok>> \o Tokenize(s, n.next)

(***************************************************************************)
(* ast.parse(expr, mode='eval') on the tokens: Python's expression grammar *)
(* for the arithmetic operators, unary signs, calls and parentheses.       *)
(***************************************************************************)
NoParse == [ok |-> FALSE, node |-> Node("none"), next |-> 0]

Parsed(node, next) == [ok |-> TRUE, node |-> node, next |-> next]

OpAt(ts, p) == IF p <= Len(ts) /\ ts[p].t = "op" THEN ts[p].s ELSE ""

BinaryOps ==
  [x \in {"+", "-", "*", "/", "//", "%"} |->
     IF x = "+" THEN "Add" ELSE IF x = "-" THEN "Sub"
     ELSE IF x = "*" THEN "Mult" ELSE IF x = "/" THEN "Div"
     ELSE IF x = "//" THEN "FloorDiv" ELSE "Mod"]

SignOps ==
  [x \in {"+", "-", "~"} |->
     IF x = "+" THEN "UAdd" ELSE IF x = "-" THEN "USub" ELSE "Invert"]

RECURSIVE ParseSum(_, _), SumTail(_, _, _), SumJoin(_, _, _, _)
RECURSIVE ParseTerm(_, _), TermTail(_, _, _), TermJoin(_, _, _, _)
RECURSIVE ParseFactor(_, _), Signed(_, _), ParsePower(_, _), PowerOf(_, _)
RECURSIVE PowerJoin(_, _), ParsePrimary(_, _), Trailers(_, _, _)
RECURSIVE ParseArgs(_, _, _, _), ParseArg(_, _, _, _, _)
RECURSIVE ArgParsed(_, _, _, _, _, _), ParseAtom(_, _), Closed(_, _)

\* the parse `got`, when it succeeded, is handed on
Then(got, node, next) == IF got.ok THEN Parsed(node, next) ELSE NoParse

\* sum: term (('+' | '-') term)*
ParseSum(ts, p) == SumJoin(ts, Node("none"), "", ParseTerm(ts, p))

SumJoin(ts, left, op, r) ==
  IF ~r.ok THEN NoParse
  ELSE SumTail(ts, IF op = "" THEN r.node ELSE BinOp(left, op, r.node), r.next)

SumTail(ts, left, p) ==
  IF OpAt(ts, p) \in {"+", "-"}
    THEN SumJoin(ts, left, BinaryOps[OpAt(ts, p)], ParseTerm(ts, p + 1))
  ELSE Parsed(left, p)

\* term: factor (('*' | '/' | '//' | '%') factor)*
ParseTerm(ts, p) == TermJoin(ts, Node("none"), "", ParseFactor(ts, p))

TermJoin(ts, left, op, r) ==
  IF ~r.ok THEN NoParse
  ELSE TermTail(ts, IF op = "" THEN r.node ELSE BinOp(left, op, r.node), r.next)

TermTail(ts, left, p) ==
  IF OpAt(ts, p) \in {"*", "/", "//", "%"}
    THEN TermJoin(ts, left, BinaryOps[OpAt(ts, p)], ParseFactor(ts, p + 1))
  ELSE Parsed(left, p)

\* factor: ('+' | '-' | '~') factor | power
ParseFactor(ts, p) ==
  IF OpAt(ts, p) \in DOMAIN SignOps
    THEN Signed(SignOps[OpAt(ts, p)], ParseFactor(ts, p + 1))
  ELSE ParsePower(ts, p)

Signed(op, x) == Then(x, UnaryOp(op, x.node), x.next)

\* power: primary ['**' factor]
ParsePower(ts, p) == PowerOf(ts, ParsePrimary(ts, p))

PowerOf(ts, b) ==
  IF b.ok /\ OpAt(ts, b.next) = "**"
    THEN PowerJoin(b.node, ParseFactor(ts, b.next + 1))
  ELSE b

PowerJoin(base, x) == Then(x, BinOp(base, "Pow", x.node), x.next)

\* primary: atom ('(' [arguments] ')')*
ParsePrimary(ts, p) == Trailers(ts, ParseAtom(ts, p), "")

\* a is the primary parsed so far, or the call whose arguments are being
\* read: seen is "" outside an argument list, "args" inside one until a
\* keyword argument is met, "keywords" after one, "**" after a '**' one
Trailers(ts, a, seen) ==
  IF ~a.ok THEN NoParse
  ELSE IF seen = "" THEN
    IF OpAt(ts, a.next) = "("
      THEN ParseArgs(ts, Call(a.node, << >>, << >>), a.next + 1, "args")
    ELSE a
  ELSE IF OpAt(ts, a.next) = "," THEN ParseArgs(ts, a.node, a.next + 1, seen)
  ELSE ParseArgs(ts, a.node, a.next, seen)

\* the kind of the argument starting at p
ArgKind(ts, p) ==
  IF OpAt(ts, p) \in {"*", "**"} THEN OpAt(ts, p)
  ELSE IF p <= Len(ts) /\ ts[p].t = "name" /\ OpAt(ts, p + 1) = "=" THEN "="
  ELSE ""

\* arguments: argument (',' argument)* [','] with
\* argument: sum | '*' sum | NAME '=' sum | '**' sum
ParseArgs(ts, node, p, seen) ==
  IF OpAt(ts, p) = ")" THEN Trailers(ts, Parsed(node, p + 1), "")
  ELSE ParseArg(ts, node, p, seen, ArgKind(ts, p))

ParseArg(ts, node, p, seen, kind) ==
  IF (kind = "" /\ seen # "args") \/ (kind = "*" /\ seen = "**") THEN NoParse
  ELSE ArgParsed(ts, node, kind, IF kind = "=" THEN ts[p].id ELSE NoId,
                 IF kind = "**" THEN "**"
                 ELSE IF kind = "=" /\ seen = "args" THEN "keywords" ELSE seen,
                 ParseSum(ts, IF kind = "" THEN p
                              ELSE IF kind = "=" THEN p + 2 ELSE p + 1))

\* the argument a joins node.args or node.keywords: kind is "" for a
\* positional one, "*", "**", or "=" for the keyword `name`
ArgParsed(ts, node, kind, name, seen, a) ==
  IF ~a.ok \/ OpAt(ts, a.next) \notin {",", ")"} THEN NoParse
  ELSE Trailers(ts,
         Parsed(IF kind = "" THEN [node EXCEPT !.args = @ \o <<a.node>>]
                ELSE IF kind = "*"
                  THEN [node EXCEPT !.args = @ \o <<Starred(a.node)>>]
                ELSE IF kind = "**"
                  THEN [node EXCEPT !.keywords = @ \o <<keyword(NoId, a.node)>>]
                ELSE [node EXCEPT !.keywords = @ \o <<keyword(name, a.node)>>],
                a.next),
         seen)

\* atom: NUMBER | NAME | True | False | None | ... | '(' sum ')' | '(' ')'
ParseAtom(ts, p) ==
  IF p > Len(ts) THEN NoParse
  ELSE IF ts[p].t \in {"num", "oom"} THEN Parsed(Constant(ts[p].val), p + 1)
  ELSE IF ts[p].t = "name" THEN Parsed(Name(ts[p].id), p + 1)
  ELSE IF OpAt(ts, p) # "(" THEN NoParse
  ELSE IF OpAt(ts, p + 1) = ")" THEN Parsed(Node("Tuple"), p + 2)
  ELSE Closed(ts, ParseSum(ts, p + 1))

Closed(ts, x) ==
  IF x.ok /\ OpAt(ts, x.next) = ")" THEN Parsed(x.node, x.next + 1) ELSE NoParse

\* the tree of the tokens ts, r being the sum parsed from the first one
TreeOf(ts, r) ==
  IF \E p \in 1..Len(ts) : ts[p].t = "bad"
    THEN [st |-> "raise", tree |-> Node("none"), fail |-> SyntaxError]
  ELSE IF ~r.ok \/ r.next # Len(ts) + 1
    THEN [st |-> "raise", tree |-> Node("none"), fail |-> SyntaxError]
  ELSE IF \E p \in 1..Len(ts) : ts[p].t = "oom"
    THEN [st |-> "oom", tree |-> Node("none"), fail |-> OutOfModel]
  ELSE [st |-> "ok", tree |-> Expression(r.node), fail |-> OutOfModel]

ParseTokens(ts) == TreeOf(ts, ParseSum(ts, 1))

\* the outcome of ast.parse: [st |-> "ok", tree |-> Expression(...)], a
\* SyntaxError, or a literal the model does not hold
ast_parse(expr) == ParseTokens(Tokenize(expr, 1))

\* return _eval(tree.body), for the outcome p of ast.parse
EvalParsed(p) == IF p.st # "ok" THEN p.fail ELSE _eval(p.tree.body)

\* safe_eval(expr): parse, then evaluate the body of the tree
safe_eval(expr) == EvalParsed(ast_parse(expr))

(***************************************************************************)
(* The calculator: current_input, the display, and the handlers.           *)
(***************************************************************************)
\* str(math.pi) and str(math.e)
PiText ==
  <<"3", ".", "1", "4", "1", "5", "9", "2", "6", "5", "3", "5", "8", "9", "7",
    "9", "3">>

EText ==
  <<"2", ".", "7", "1", "8", "2", "8", "1", "8", "2", "8", "4", "5", "9", "0",
    "4", "5">>

ErrorText == <<"E", "r", "r", "o", "r">>

\* s.replace(old, new) for a one-character old
\* (the text is rewritten half by half)
RECURSIVE str_replace(_, _, _)
str_replace(s, old, new) ==
  IF Len(s) = 0 THEN << >>
  ELSE IF Len(s) = 1 THEN (IF s[1] = old THEN new ELSE s)
  ELSE str_replace(SubSeq(s, 1, Len(s) \div 2), old, new)
         \o str_replace(SubSeq(s, Len(s) \div 2 + 1, Len(s)), old, new)

\* a rewriting that leaves the percent sign in place
CanonicalKeepingPercent(input) ==
  str_replace(
    str_replace(str_replace(input, Label.times, <<"*">>), Label.divide, <<"/">>),
    "^", <<"*", "*">>)

\* the text evaluate_expression hands to safe_eval
Canonical(input) ==
  str_replace(
    str_replace(
      str_replace(str_replace(input, Label.times, <<"*">>), Label.divide, <<"/">>),
      "^", <<"*", "*">>),
    "%", <<"/", "1", "0", "0">>)

\* what a handler that evaluates nothing leaves in last_call
NoOutcome == [st |-> "none", val |-> NoVal, exc |-> "", msg |-> ""]

Ran(handler, expression, outcome) ==
  [handler |-> handler, input |-> << >>, expression |-> expression,
   outcome |-> outcome]

\* str(result) for the outcome r of safe_eval
TextOf(r) ==
  IF r.st = "ok" /\ ~py_str(r.val).ok
    THEN [outcome |-> OutOfModel, text |-> << >>]
  ELSE [outcome |-> r, text |-> py_str(r.val).text]

\* the try block: safe_eval, then str(result); any exception is caught
Evaluated(expression) == TextOf(safe_eval(expression))

\* an except branch that shows the error but keeps the input
ShownKeepingInput(handler, input, expression, got) ==
  /\ got.outcome.st # "oom"
  /\ IF got.outcome.st = "ok"
       THEN /\ result_var' = got.text
            /\ current_input' = got.text
       ELSE /\ result_var' = ErrorText
            /\ current_input' = current_input
  /\ last_call' = [Ran(handler, expression, got.outcome) EXCEPT !.input = input]

\* the two branches of the try statement, for what the try block computed
Shown(handler, input, expression, got) ==
  /\ got.outcome.st # "oom"
  /\ IF got.outcome.st = "ok"
       THEN /\ result_var' = got.text
            /\ current_input' = got.text
       ELSE /\ result_var' = ErrorText
            /\ current_input' = << >>
  /\ last_call' = [Ran(handler, expression, got.outcome) EXCEPT !.input = input]

evaluate_expression ==
  Shown("evaluate_expression", current_input, Canonical(current_input),
        Evaluated(Canonical(current_input)))

toggle_advanced ==
  /\ advanced_visible' = ~advanced_visible
  /\ last_call' = Ran("toggle_advanced", << >>, NoOutcome)
  /\ UNCHANGED <<current_input, result_var>>

toggle_sign ==
  /\ IF current_input # << >> /\ Head(current_input) = "-"
       THEN current_input' = Tail(current_input)
       ELSE /\ Len(current_input) < MaxLen
            /\ current_input' = <<"-">> \o current_input
  /\ result_var' = current_input'
  /\ last_call' = Ran("toggle_sign", << >>, NoOutcome)

\* float() of the digits `body` that follow the optional sign
FloatOf(negative, body, n) ==
  IF ~(IsDigit(CharAt(body, 1))
        \/ (CharAt(body, 1) = "." /\ IsDigit(CharAt(body, 2))))
    THEN Raise("ValueError", "could not convert string to float")
  ELSE IF n.next # Len(body) + 1 \/ n.real.st = "raise"
    THEN Raise("ValueError", "could not convert string to float")
  ELSE IF n.real.st # "ok" THEN OutOfModel
  ELSE IF negative THEN operator_neg(n.real.val)
  ELSE n.real

FloatOfBody(negative, body) == FloatOf(negative, body, LexNumber(body, 1))

\* float(text): an optional sign, then the digits of a float
py_float(text) ==
  IF text # << >> /\ Head(text) \in {"+", "-"}
    THEN FloatOfBody(Head(text) = "-", Tail(text))
  ELSE FloatOfBody(FALSE, text)

\* the lambdas on_button_click passes to apply_unary
UnaryFunc(text, value) ==
  IF text = Label.sqrt THEN math_sqrt(<<value>>)
  ELSE IF text = Label.square THEN operator_pow(value, IntV(2))
  ELSE operator_pow(value, IntV(3))

\* result = func(value), for the outcome of float()
Applied(text, value) ==
  IF value.st # "ok" THEN value ELSE UnaryFunc(text, value.val)

apply_unary(text) ==
  Shown("apply_unary", << >>, << >>,
        TextOf(Applied(text, py_float(IF current_input # << >>
                                        THEN current_input ELSE result_var))))

wrap_function(func_name) ==
  /\ Len(current_input) < MaxLen
  /\ current_input' = IF current_input # << >>
                        THEN func_name \o <<"(">> \o current_input \o <<")">>
                        ELSE func_name \o <<"(">>
  /\ result_var' = current_input'
  /\ last_call' = Ran("wrap_function", << >>, NoOutcome)

\* current_input += text; result_var.set(current_input)
AppendText(handler, text) ==
  /\ Len(current_input) < MaxLen
  /\ current_input' = current_input \o text
  /\ result_var' = current_input'
  /\ last_call' = Ran(handler, << >>, NoOutcome)

\* the labels of the buttons the model presses
FunctionButtons == {K.sin, K.cos, K.tan, K.log, K.ln, K.sinh, K.cosh, K.tanh,
                    K.asinh, K.acosh, K.atanh}

Buttons ==
  {<<"C">>, <<Label.backspace>>, <<"=">>, <<Label.sign>>, <<Label.sqrt>>,
   <<Label.square>>, <<Label.cube>>, <<"M", "o", "r", "e">>, K.pow,
   <<"m", "o", "d">>, <<"%">>, <<"0">>, <<"5">>, <<Label.times>>, <<"(">>,
   <<")">>, K.sin, K.ln}

on_button_click(text) ==
  /\ IF text = <<"M", "o", "r", "e">> THEN toggle_advanced
     ELSE IF text = <<"C">> THEN
       /\ current_input' = << >>
       /\ result_var' = <<"0">>
       /\ last_call' = Ran("on_button_click", << >>, NoOutcome)
     ELSE IF text = <<Label.backspace>> THEN
       /\ current_input' = SubSeq(current_input, 1, Len(current_input) - 1)
       /\ result_var' = IF current_input' # << >> THEN current_input' ELSE <<"0">>
       /\ last_call' = Ran("on_button_click", << >>, NoOutcome)
     ELSE IF text = <<"=">> THEN evaluate_expression
     ELSE IF text = <<Label.sign>> THEN toggle_sign
     ELSE IF text \in {<<Label.sqrt>>, <<Label.square>>, <<Label.cube>>}
       THEN apply_unary(text[1])
     ELSE IF text \in {K.pow, <<"^">>} THEN AppendText("on_button_click", <<"^">>)
     ELSE IF text \in FunctionButtons THEN wrap_function(text)
     ELSE IF text = <<Label.pi>> THEN AppendText("on_button_click", PiText)
     ELSE IF text = K.e THEN AppendText("on_button_click", EText)
     ELSE IF text = <<"m", "o", "d">> THEN AppendText("on_button_click", <<"%">>)
     ELSE AppendText("on_button_click", text)
  /\ IF text = <<"M", "o", "r", "e">> THEN TRUE ELSE UNCHANGED advanced_visible
  /\ UNCHANGED <<ALLOWED_NAMES, ALLOWED_OPERATORS, call, threads>>

\* key in text, for str operands
InText(key, text) ==
  \E i \in 1..(Len(text) + 1) :
    i + Len(key) - 1 <= Len(text) /\ SubSeq(text, i, i + Len(key) - 1) = key

\* the key events of the model: event.char and event.keysym
Keys ==
  {[char |-> <<"5">>, keysym |-> "5"],
   [char |-> <<"/">>, keysym |-> "slash"],
   [char |-> <<"-">>, keysym |-> "minus"],
   [char |-> <<".">>, keysym |-> "period"],
   [char |-> << >>, keysym |-> "Shift_L"],
   [char |-> <<Label.cr>>, keysym |-> "Return"],
   [char |-> <<Label.bs>>, keysym |-> "BackSpace"],
   [char |-> <<Label.esc>>, keysym |-> "Escape"],
   [char |-> <<"a">>, keysym |-> "a"]}

key_press(event) ==
  LET key == event.char
  IN  IF InText(key, <<"0", "1", "2", "3", "4", "5", "6", "7", "8", "9", ".",
                       "+", "-", "*", "/", "(", ")", "^">>) THEN
        /\ AppendText("key_press", key)
        /\ UNCHANGED <<ALLOWED_NAMES, ALLOWED_OPERATORS, advanced_visible,
                       call, threads>>
      ELSE IF key = <<Label.cr>> THEN
        /\ evaluate_expression
        /\ UNCHANGED <<ALLOWED_NAMES, ALLOWED_OPERATORS, advanced_visible,
                       call, threads>>
      ELSE IF key = <<Label.bs>> THEN on_button_click(<<Label.backspace>>)
      ELSE IF event.keysym = "Escape" THEN on_button_click(<<"C">>)
      ELSE UNCHANGED vars

\* no safe_eval call is in progress
NoCall ==
  [expr |-> << >>, tree |-> Node("none"), pc |-> "idle", ret |-> NoOutcome]

\* the state after module load and AdvancedCalculator.__init__
Init ==
  /\ ALLOWED_NAMES = InitialNames
  /\ ALLOWED_OPERATORS = InitialOperators
  /\ current_input = << >>
  /\ result_var = <<"0">>
  /\ advanced_visible = FALSE
  /\ last_call = Ran("__init__", << >>, NoOutcome)
  /\ call = NoCall
  /\ threads = << >>

Next ==
  \/ \E text \in Buttons : on_button_click(text)
  \/ \E event \in Keys : key_press(event)

Spec == Init /\ [][Next]_vars

(***************************************************************************)
(* One safe_eval call on its own: the argument is drawn from a bounded set *)
(* of expression texts, or (for syntax outside the grammar above) from a   *)
(* bounded set of trees ast.parse returns; the call parses, then           *)
(* evaluates.                                                              *)
(***************************************************************************)
\* identifiers: registry keys, spellings that differ in case or by a
\* letter, unknown names, and spellings NFKC maps onto registry keys
Identifiers ==
  {K.pi, K.e, K.sin, K.sqrt, K.abs, K.log, K.ln, <<"P", "I">>,
   <<"S", "i", "n">>, <<"s", "i", "n", "e">>, <<"x">>,
   <<"_", "_", "i", "m", "p", "o", "r", "t", "_", "_">>,
   <<Label.fw_p, "i">>, <<"s", Label.mb_i, "n">>, <<"l", Label.mb_i>>}

\* the texts of the calls: an identifier and what follows it (nothing, or
\* the arguments of a call), or two operands around an operator
Expressions ==
  LET Suffixes ==
        {<< >>, <<"(", "1", ")">>, <<"(", ")">>,
         <<"(", "4", ",", "x", "=", "1", ")">>, <<"(", "*", "4", ")">>,
         <<"(", "*", "*", "4", ")">>, <<"(", "-", "1", ")">>,
         <<"(", "9", "0", ")">>, <<"(", "0", ")">>,
         <<"(", "4", ",", "0", ".", "5", ")">>,
         <<"(", "-", "8", ",", "0", ".", "5", ")">>}
      Operands ==
        {<<"0">>, <<"1">>, <<"4">>, <<"(", "-", "8", ")">>, <<"0", ".", "5">>,
         <<"-", "0", ".", "5">>, <<"2", ".", "0">>, <<"0", ".", "0">>, K.sin,
         K.pi}
      Operators ==
        {<<"+">>, <<"-">>, <<"*">>, <<"/">>, <<"%">>, <<"*", "*">>,
         <<"/", "/">>, <<"*", "*", "-">>, <<"*", "~">>, << >>}
  IN  {id \o suffix : id \in Identifiers, suffix \in Suffixes}
        \cup {a \o op \o b :
                 a \in Operands, op \in Operators, b \in Operands}

\* trees of expressions the grammar above does not cover: math.pi, x[0],
\* [x for x in y], (x := 1), lambda: 1, 1 < 2, math.sqrt(1),
\* sqrt(x.y), __import__('os'), 1 ^ 1, not 1, sqrt(4, x=1 ^ 1)
Trees ==
  {Expression(body) :
     body \in {Node("Attribute"), Node("Subscript"), Node("ListComp"),
               Node("NamedExpr"), Node("Lambda"), Node("Compare"),
               Call(Node("Attribute"), <<Constant(IntV(1))>>, << >>),
               Call(Name(K.sqrt), <<Node("Attribute")>>, << >>),
               Call(Name(<<"_", "_", "i", "m", "p", "o", "r", "t", "_", "_">>),
                    <<Constant(OtherV(<<"o", "s">>))>>, << >>),
               BinOp(Constant(IntV(1)), "BitXor", Constant(IntV(1))),
               UnaryOp("Not", Constant(IntV(1))),
               BinOp(Node("Subscript"), "Add", Constant(IntV(1))),
               Call(Name(K.sqrt), <<Constant(IntV(4))>>,
                    <<keyword(<<"x">>,
                              BinOp(Constant(IntV(1)), "BitXor",
                                    Constant(IntV(1))))>>)}}

NewCall(expr, tree, pc) ==
  [expr |-> expr, tree |-> tree, pc |-> pc, ret |-> NoOutcome]

InitEval ==
  /\ ALLOWED_NAMES = InitialNames
  /\ ALLOWED_OPERATORS = InitialOperators
  /\ current_input = << >>
  /\ result_var = <<"0">>
  /\ advanced_visible = FALSE
  /\ last_call = Ran("__init__", << >>, NoOutcome)
  /\ threads = << >>
  /\ call \in {NewCall(expr, Node("none"), "parse") : expr \in Expressions}
               \cup {NewCall(<< >>, tree, "eval") : tree \in Trees}

\* tree = ast.parse(expr, mode='eval'), for the outcome p of the parse
HaveParsed(p) ==
  /\ p.st # "oom"
  /\ call' = IF p.st = "ok" THEN [call EXCEPT !.tree = p.tree, !.pc = "eval"]
             ELSE [call EXCEPT !.ret = p.fail, !.pc = "done"]

Parse ==
  /\ call.pc = "parse"
  /\ HaveParsed(ast_parse(call.expr))
  /\ UNCHANGED <<ALLOWED_NAMES, ALLOWED_OPERATORS, current_input, result_var,
                 advanced_visible, last_call, threads>>

\* return _eval(tree.body), for the outcome r of the evaluation
HaveEvaluated(r) ==
  /\ r.st # "oom"
  /\ call' = [call EXCEPT !.ret = r, !.pc = "done"]

Eval ==
  /\ call.pc = "eval"
  /\ HaveEvaluated(_eval(call.tree.body))
  /\ UNCHANGED <<ALLOWED_NAMES, ALLOWED_OPERATORS, current_input, result_var,
                 advanced_visible, last_call, threads>>

NextEval == Parse \/ Eval

SpecEval == InitEval /\ [][NextEval]_vars

(***************************************************************************)
(* NCalls safe_eval calls running concurrently (the window's handlers, or  *)
(* workers sharing the module).  Each call has its own tree and its own    *)
(* _eval frames: todo holds what is left to evaluate, vals the values      *)
(* computed so far.  A step of a call is one visit of a node, or one call  *)
(* of an operator or a registered function; every step reads the          *)
(* registries as they are at that moment.                                  *)
(***************************************************************************)
ConcurrentExpressions ==
  {<<"s", "i", "n", "(", "9", "0", ")">>, <<"4", "/", "0">>, K.pi,
   <<"1", "+", "x">>, <<"s", "q", "r", "t", "(", "4", ",", "x", "=", "1", ")">>,
   <<"a", "b", "s", "(", "-", "8", ")", "*", "4">>}

NewThread(expr) ==
  [expr |-> expr, pc |-> "parse", todo |-> << >>, vals |-> << >>,
   ret |-> NoOutcome, overlapped |-> FALSE]

InitConc ==
  /\ ALLOWED_NAMES = InitialNames
  /\ ALLOWED_OPERATORS = InitialOperators
  /\ current_input = << >>
  /\ result_var = <<"0">>
  /\ advanced_visible = FALSE
  /\ last_call = Ran("__init__", << >>, NoOutcome)
  /\ call = NoCall
  /\ threads \in [1..NCalls -> {NewThread(expr) : expr \in ConcurrentExpressions}]

\* what a call has left to do: visit a node, apply the operator function f
\* to the last argc values, or call the registry entry id with them
Item(kind, node, f, id, argc) ==
  [kind |-> kind, node |-> node, f |-> f, id |-> id, argc |-> argc]

\* an exception leaves every frame of the call
Failed(t, outcome) ==
  [t EXCEPT !.ret = outcome, !.pc = "done", !.todo = << >>, !.vals = << >>]

\* a node returns the value v
Push(t, v) == [t EXCEPT !.todo = Tail(@), !.vals = Append(@, v)]

\* a node has the given items evaluated in its place
Expand(t, items) == [t EXCEPT !.todo = items \o Tail(@)]

\* a function called with the last argc values came back with r
Returned(t, argc, r) ==
  IF r.st # "ok" THEN Failed(t, r)
  ELSE [t EXCEPT !.todo = Tail(@),
                 !.vals = SubSeq(@, 1, Len(@) - argc) \o <<r.val>>]

\* one activation of _eval(node), up to its recursive calls
VisitNode(t, node) ==
  IF node.type = "Constant" THEN Push(t, node.value)
  ELSE IF node.type = "BinOp" THEN
    IF node.op \notin DOMAIN ALLOWED_OPERATORS
      THEN Failed(t, Raise("KeyError", node.op))
    ELSE Expand(t, <<Item("node", node.left, "", NoId, 0),
                     Item("node", node.right, "", NoId, 0),
                     Item("apply", Node("none"), ALLOWED_OPERATORS[node.op],
                          NoId, 2)>>)
  ELSE IF node.type = "UnaryOp" THEN
    IF node.op \notin DOMAIN ALLOWED_OPERATORS
      THEN Failed(t, Raise("KeyError", node.op))
    ELSE Expand(t, <<Item("node", node.operand, "", NoId, 0),
                     Item("apply", Node("none"), ALLOWED_OPERATORS[node.op],
                          NoId, 1)>>)
  ELSE IF node.type = "Call" THEN
    IF node.func.type = "Name" /\ node.func.id \in DOMAIN ALLOWED_NAMES
      THEN Expand(t, [i \in 1..Len(node.args) |->
                        Item("node", node.args[i], "", NoId, 0)]
                       \o <<Item("call", Node("none"), "", node.func.id,
                                 Len(node.args))>>)
    ELSE Failed(t, Raise("ValueError", "Invalid function"))
  ELSE IF node.type = "Name" /\ node.id \in DOMAIN ALLOWED_NAMES
    THEN Push(t, ALLOWED_NAMES[node.id])
  ELSE Failed(t, Raise("ValueError", "Unsupported expression"))

StepItem(t, item) ==
  IF item.kind = "node" THEN VisitNode(t, item.node)
  ELSE IF item.kind = "apply"
    THEN Returned(t, item.argc,
                  CallOperator(item.f, SubSeq(t.vals, Len(t.vals) - item.argc + 1,
                                              Len(t.vals))))
  ELSE IF item.id \notin DOMAIN ALLOWED_NAMES
    THEN Failed(t, Raise("KeyError", "name"))
  ELSE Returned(t, item.argc,
                CallEntry(ALLOWED_NAMES[item.id],
                          SubSeq(t.vals, Len(t.vals) - item.argc + 1,
                                 Len(t.vals))))

\* another call is between its parse and its return
Overlaps(i) == \E j \in DOMAIN threads : j # i /\ threads[j].pc = "eval"

\* a call that also drops the name it resolved from the shared registry
StoreShared(i, t) ==
  /\ threads' = [threads EXCEPT ![i] = [t EXCEPT !.overlapped = @ \/ Overlaps(i)]]
  /\ ALLOWED_NAMES' = [id \in DOMAIN ALLOWED_NAMES \ {K.sin} |-> ALLOWED_NAMES[id]]
  /\ UNCHANGED ALLOWED_OPERATORS

\* call i keeps t in its own locals; no global is assigned
Store(i, t) ==
  /\ threads' = [threads EXCEPT ![i] = [t EXCEPT !.overlapped = @ \/ Overlaps(i)]]
  /\ UNCHANGED <<ALLOWED_NAMES, ALLOWED_OPERATORS>>

Started(t, p) ==
  IF p.st # "ok" THEN Failed(t, p.fail)
  ELSE [t EXCEPT !.pc = "eval", !.todo = <<Item("node", p.tree.body, "", NoId, 0)>>]

ParseCall(i) ==
  /\ threads[i].pc = "parse"
  /\ Store(i, Started(threads[i], ast_parse(threads[i].expr)))

EvalStep(i) ==
  /\ threads[i].pc = "eval"
  /\ threads[i].todo # << >>
  /\ Store(i, StepItem(threads[i], Head(threads[i].todo)))

Return(i) ==
  /\ threads[i].pc = "eval"
  /\ threads[i].todo = << >>
  /\ Store(i, [threads[i] EXCEPT !.ret = Ok(threads[i].vals[1]),
                                 !.pc = "done", !.vals = << >>])

NextConc ==
  /\ \E i \in DOMAIN threads : ParseCall(i) \/ EvalStep(i) \/ Return(i)
  /\ UNCHANGED <<current_input, result_var, advanced_visible, last_call, call>>

SpecConc == InitConc /\ [][NextConc]_vars

(***************************************************************************)
(* Properties.                                                             *)
(***************************************************************************)
\* the tree holds a construct outside the allow-list
RECURSIVE Disallowed(_)
Disallowed(node) ==
  IF node.type = "Expression" THEN Disallowed(node.body)
  ELSE IF node.type \in {"Constant", "Name"} THEN FALSE
  ELSE IF node.type = "BinOp" THEN
    \/ node.op \notin DOMAIN ALLOWED_OPERATORS
    \/ Disallowed(node.left)
    \/ Disallowed(node.right)
  ELSE IF node.type = "UnaryOp" THEN
    node.op \notin DOMAIN ALLOWED_OPERATORS \/ Disallowed(node.operand)
  ELSE IF node.type = "Call" THEN
    \/ ~(node.func.type = "Name" /\ node.func.id \in DOMAIN ALLOWED_NAMES)
    \/ node.keywords # << >>
    \/ \E i \in DOMAIN node.args : Disallowed(node.args[i])
  ELSE TRUE

\* C1: fail-closed.  When the parse tree of the input holds a construct
\* outside the allow-list (an attribute, subscript, comprehension or
\* assignment node, a call whose target is not a bare registry name, a
\* keyword or starred argument, an operator that is not a key of
\* ALLOWED_OPERATORS), a finished safe_eval call has raised.
C1_FailClosed ==
  (call.pc = "done" /\ Disallowed(call.tree)) => call.ret.st = "raise"

\* C2: closed namespace.  For every identifier id that is not a key of
\* ALLOWED_NAMES, safe_eval("id") and safe_eval("id(1)") raise.
C2_ClosedNamespace ==
  \A id \in Identifiers :
    (/\ id \notin DOMAIN ALLOWED_NAMES
     /\ call.pc = "done"
     /\ call.expr \in {id, id \o <<"(", "1", ")">>})
      => call.ret.st = "raise"

\* C3: a bare name evaluates successfully only to a number: when the input
\* is a single name and safe_eval returns, the value is an int or a float,
\* never a function object.
C3_BareNameIsNumber ==
  (/\ call.pc = "done"
   /\ call.tree.type = "Expression"
   /\ call.tree.body.type = "Name"
   /\ call.ret.st = "ok")
    => call.ret.val.k \in {"int", "float", "real"}

\* C4: uniform failure and reset.  After evaluate_expression has run with
\* safe_eval raising, for whatever reason, the display is exactly "Error"
\* and current_input is empty.
C4_UniformFailure ==
  (last_call.handler = "evaluate_expression" /\ last_call.outcome.st = "raise")
    => (result_var = ErrorText /\ current_input = << >>)

C4_Witness ==
  /\ last_call.handler = "evaluate_expression"
  /\ last_call.input = <<"5", "/", "0">>
  /\ last_call.outcome.exc = "ZeroDivisionError"
  /\ result_var = ErrorText
  /\ current_input = << >>

IsZero(node) ==
  node.type = "Constant" /\ IsNum(node.value) /\ node.value.n = 0

IsNegative(node) ==
  \/ node.type = "Constant" /\ IsNum(node.value) /\ node.value.n < 0
  \/ /\ node.type = "UnaryOp"
     /\ node.op = "USub"
     /\ node.operand.type = "Constant"
     /\ IsNum(node.operand.value)
     /\ node.operand.value.n > 0

IsFraction(node) ==
  node.type = "Constant" /\ node.value.k = "float" /\ node.value.e > 0

\* a division or modulo by zero, a negative base raised to a fractional
\* exponent, or sqrt of a negative number
DomainFault(node) ==
  \/ /\ node.type = "BinOp"
     /\ \/ node.op \in {"Div", "Mod"} /\ IsZero(node.right)
        \/ node.op = "Pow" /\ IsNegative(node.left) /\ IsFraction(node.right)
  \/ /\ node.type = "Call"
     /\ node.func = Name(K.sqrt)
     /\ Len(node.args) = 1
     /\ node.keywords = << >>
     /\ IsNegative(node.args[1])

\* C5: division or modulo by zero, a negative base raised to a fractional
\* exponent, and sqrt of a negative number make safe_eval raise.
C5_DomainFaultsRaise ==
  (/\ call.pc = "done"
   /\ call.tree.type = "Expression"
   /\ DomainFault(call.tree.body))
    => call.ret.st = "raise"

\* the tree applies the operator op somewhere
RECURSIVE Applies(_, _)
Applies(node, op) ==
  IF node.type = "Expression" THEN Applies(node.body, op)
  ELSE IF node.type = "BinOp"
    THEN node.op = op \/ Applies(node.left, op) \/ Applies(node.right, op)
  ELSE IF node.type = "UnaryOp" THEN Applies(node.operand, op)
  ELSE IF node.type = "Starred" THEN Applies(node.value, op)
  ELSE IF node.type = "Call" THEN
    \/ Applies(node.func, op)
    \/ \E i \in DOMAIN node.args : Applies(node.args[i], op)
    \/ \E i \in DOMAIN node.keywords : Applies(node.keywords[i].value, op)
  ELSE FALSE

\* a decimal integer literal
IsDecimal(text) ==
  /\ text # << >>
  /\ \A i \in DOMAIN text : IsDigit(text[i])
  /\ Len(text) = 1 \/ text[1] # "0"

\* C6: percent is division by 100, applied to the text.  Whatever buttons
\* and keys led to it, the text evaluate_expression hands to safe_eval holds
\* no "%" and its tree applies no Mod; and when the input is a decimal
\* integer N followed by "%", the result is N / 100.
C6_PercentIsDivision ==
  last_call.handler = "evaluate_expression" =>
    /\ \A i \in DOMAIN last_call.expression : last_call.expression[i] # "%"
    /\ ~Applies(ast_parse(last_call.expression).tree, "Mod")
    /\ (/\ Len(last_call.input) >= 2
        /\ last_call.input[Len(last_call.input)] = "%"
        /\ IsDecimal(SubSeq(last_call.input, 1, Len(last_call.input) - 1)))
         => last_call.outcome =
              operator_truediv(
                IntV(DigitsValue(last_call.input, 1, Len(last_call.input), 0)),
                IntV(100))

C6_Witness ==
  /\ last_call.handler = "evaluate_expression"
  /\ last_call.input = <<"5", "0", "%">>
  /\ last_call.expression = <<"5", "0", "/", "1", "0", "0">>
  /\ last_call.outcome = Ok(FloatV(5, 1))
  /\ result_var = <<"0", ".", "5">>

\* C7: idempotence.  After evaluate_expression has succeeded, evaluating
\* what it left in current_input succeeds again and gives the text on the
\* display: a repeated '=' changes nothing.
C7_RepeatedEqualsIdempotent ==
  (/\ last_call.handler = "evaluate_expression"
   /\ last_call.outcome.st = "ok"
   /\ Evaluated(Canonical(current_input)).outcome.st # "oom")
    => /\ Evaluated(Canonical(current_input)).outcome.st = "ok"
       /\ Evaluated(Canonical(current_input)).text = result_var

\* C8: concurrent calls are independent.  No step of a safe_eval call
\* changes ALLOWED_NAMES or ALLOWED_OPERATORS, and every call that has
\* finished, however its steps were interleaved with those of the other
\* calls, has the outcome of the same call run alone.
C8_ConcurrentCallsIndependent ==
  /\ ALLOWED_NAMES = InitialNames
  /\ ALLOWED_OPERATORS = InitialOperators
  /\ \A i \in DOMAIN threads :
       threads[i].pc = "done" => threads[i].ret = safe_eval(threads[i].expr)

C8_Witness ==
  /\ \A i \in DOMAIN threads : threads[i].pc = "done" /\ threads[i].overlapped
  /\ threads[1].expr = <<"s", "i", "n", "(", "9", "0", ")">>
  /\ threads[1].ret = Ok(FloatV(1, 0))
  /\ threads[2].expr = <<"4", "/", "0">>
  /\ threads[2].ret.exc = "ZeroDivisionError"

\* C9: the display shows current_input when that is not empty, and "0" or
\* "Error" when it is.
C9_DisplayMatchesInput ==
  IF current_input # << >> THEN result_var = current_input
  ELSE result_var \in {<<"0">>, ErrorText}

\* C10: every function button names a key of ALLOWED_NAMES, so a number
\* wrapped by a function button and evaluated never fails with
\* "Invalid function".
C10_FunctionButtonsRegistered ==
  /\ FunctionButtons \subseteq DOMAIN ALLOWED_NAMES
  /\ \A f \in FunctionButtons :
       (/\ last_call.handler = "evaluate_expression"
        /\ Len(last_call.input) > Len(f) + 2
        /\ SubSeq(last_call.input, 1, Len(f) + 1) = f \o <<"(">>
        /\ last_call.input[Len(last_call.input)] = ")"
        /\ IsDecimal(SubSeq(last_call.input, Len(f) + 2,
                            Len(last_call.input) - 1)))
         => last_call.outcome.msg # "Invalid function"

====
